---- MODULE Spec2Model ----
(***************************************************************************)
(* State-machine model of the headless RPG engine (src/engine.py): the     *)
(* RPGGame object, its start / take_action / undo handlers, and the        *)
(* collaborators they call (interpreter, dice, narrator, opening scene).   *)
(* A Python Optional is a sequence of length 0 (None) or 1 (the value).    *)
(***************************************************************************)
EXTENDS Integers, Sequences, FiniteSets, TLC

\* Bound on the undo stack: a turn that would push a deeper frame is not explored.
MaxHistory == 2

\* Bound on the numbers answered under the key "difficulty" when
\* interpret_action is applied on its own: -1..MaxDifficultyInput holds
\* values below, inside and above 1..5.
MaxDifficultyInput == 7

\* Bound on the length of the lists answered to a suggestions request.
MaxListLen == 4

\* Bound on the presses of the +/- buttons of the TUI's stat screen.
MaxStatPresses == 2

\* Bound on the speak() calls followed, one playback thread each.
MaxSpeeches == 3

\* Bound on the stat values handed to start() when it is applied on its own:
\* 0..MaxStatInput holds values below, inside and above the legal range.
MaxStatInput == 6

\* The legal range of a stat and of a difficulty.
StatMin == 1
StatMax == 5

None == <<>>
Some(x) == <<x>>

\* Python truthiness of an Optional[str]: None and "" are both falsy.
Truthy(opt) == opt # None /\ opt[1] # ""

Max(a, b) == IF a > b THEN a ELSE b
Min(a, b) == IF a < b THEN a ELSE b

\* int() of a str: the words that are decimal numerals and their values; a
\* word outside the table raises ValueError (None).
IntValue == ("0" :> 0) @@ ("1" :> 1) @@ ("3" :> 3) @@ ("4" :> 4) @@ ("5" :> 5)
int(word) == IF word \in DOMAIN IntValue THEN Some(IntValue[word]) ELSE None

\* A JSON value under the key "difficulty": a number, or a string.
JNum(n) == [num |-> Some(n), word |-> ""]
JWord(w) == [num |-> None, word |-> w]

\* int() of such a value: the number itself, or int() of the string.
int_of_json(v) == IF v.num # None THEN v.num ELSE int(v.word)

(***************************************************************************)
(* Inputs                                                                  *)
(***************************************************************************)
\* Character texts handed to start(); "" is a legal str argument.
Characters == {"goblin"}

\* Action texts handed to take_action().
Actions == {"", "fly"}

\* The argument combinations <<action, force, god_mode>> explored, shaped as
\* the CLI calls the engine: a real text when force is not set (`action`,
\* `god`), the empty text when force is set (`force`); god_mode is free.
Calls == {c \in Actions \X BOOLEAN \X BOOLEAN : c[1] = "" <=> c[2]}

\* (mind, body, spirit) triples handed to start(): a valid one with three
\* different values, one with a stat out of 1..5, one with a wrong total.
StatTriples == {<<5, 3, 1>>, <<0, 4, 5>>, <<3, 3, 4>>}

\* Faces of random.randint(1, 10). The turns of the game draw from a sample:
\* face 5 fails every check explored here (5 + 3 - 3 = 5 is not above 5),
\* the highest face passes every one (10 + 1 - 5 = 6).
DiceLow == 1
DiceHigh == 10
DiceRolls == {5, DiceHigh}

\* What the completion collaborator can do on an interpreter request:
\* raise, answer text that is not JSON, answer JSON that is no object, or
\* answer a JSON object whose keys may be absent (None).
RaiseResp == [kind |-> "raise", valid |-> None, stat |-> None, difficulty |-> None, lethal |-> None]
GarbageResp == [kind |-> "garbage", valid |-> None, stat |-> None, difficulty |-> None, lethal |-> None]
NonObjectResp == [kind |-> "json_array", valid |-> None, stat |-> None, difficulty |-> None, lethal |-> None]
JsonResp(v, s, d, l) == [kind |-> "json", valid |-> v, stat |-> s, difficulty |-> d, lethal |-> l]

InterpResponses ==
    { RaiseResp,
      JsonResp(Some(FALSE), None, None, None),
      JsonResp(None, Some("body"), Some(JNum(3)), Some(TRUE)) }

\* What the completion collaborator can do on a narrator / opening request:
\* raise (None) or return prose.
OpeningTexts == {"o1"}
NarrativeTexts == {"n1"}
OpeningResponses == {None} \cup {Some(t) : t \in OpeningTexts}
NarratorResponses == {None} \cup {Some(t) : t \in NarrativeTexts}

(***************************************************************************)
(* State                                                                   *)
(***************************************************************************)
VARIABLES character, stats, context, alive, history, last_roll, last_action,
          last_invalid, call,
          probe,       \* the last application of a function on its own: [fn, args, out]
          state_file,  \* the CLI's .game_state.pkl: None, or the pickled RPGGame
          tui,         \* the fields of the RPGApp of ui.py and its worker
          tts          \* the TTS object of tts.py, its engine and playback threads

gameVars == <<character, stats, context, alive, history, last_roll, last_action, last_invalid>>
vars == <<character, stats, context, alive, history, last_roll, last_action, last_invalid, call,
          probe, state_file, tui, tts>>

\* The fields of the RPGGame object as one record.
Game ==
    [character |-> character, stats |-> stats, context |-> context, alive |-> alive,
     history |-> history, last_roll |-> last_roll, last_action |-> last_action,
     last_invalid |-> last_invalid]

\* The record of the most recent call on the object: which method, with which
\* arguments, what it returned (or that it raised), which collaborators it
\* called and the prose a collaborator returned to it.
Call(op, action, force, god_mode, status, consulted, text) ==
    [op |-> op, action |-> action, force |-> force, god_mode |-> god_mode,
     status |-> status, consulted |-> consulted, text |-> text]

Install(g, c) ==
    /\ character' = g.character
    /\ stats' = g.stats
    /\ context' = g.context
    /\ alive' = g.alive
    /\ history' = g.history
    /\ last_roll' = g.last_roll
    /\ last_action' = g.last_action
    /\ last_invalid' = g.last_invalid
    /\ call' = c
    /\ UNCHANGED <<probe, state_file, tui, tts>>

\* RPGGame.__init__: the fields of a fresh object.
NewGame ==
    [character |-> None, stats |-> None, context |-> "", alive |-> TRUE,
     history |-> <<>>, last_roll |-> None, last_action |-> None,
     last_invalid |-> FALSE]

NoProbe == [fn |-> "none", args |-> <<>>, out |-> <<>>]

\* The TUI has no worker running or scheduled.
NoWorker == [kind |-> "none"]

\* The worker ended with an exception; run_worker was called with its
\* default exit_on_error, so the app stops handling events.
ErrorWorker == [kind |-> "error"]

\* RPGApp.__init__ and the reactive defaults: the fields of the app on the
\* title screen. `presses` counts the +/- presses, `applied` tells for each frame of history whether
\* the turn that pushed it has completed.
NewApp ==
    [creation_phase |-> "title", character |-> "",
     alloc_mind |-> 3, alloc_body |-> 3, alloc_spirit |-> 3,
     game_starting |-> FALSE, game_started |-> FALSE,
     stats |-> [mind |-> 3, body |-> 3, spirit |-> 3],
     context |-> "", history |-> <<>>, last_roll_text |-> None,
     last_action |-> None, last_invalid |-> FALSE, alive |-> TRUE,
     input_disabled |-> FALSE, force_hidden |-> TRUE,
     worker |-> NoWorker,
     presses |-> 0, applied |-> <<>>]

\* Playback threads are numbered in the order speak() creates them.
Threads == 1..MaxSpeeches

\* TTS.__init__ and OpenAITTS.__init__: no playback thread, the shared stop
\* flag clear, no stream registered with the engine. `thread[i]` is the
\* position of playback thread i in stream_and_play and the state of the
\* stream it opened; `wrote` is the thread that has written audio since
\* the last speak() returned (0: none).
NewTTS ==
    [stop_flag |-> FALSE,
     stream |-> 0,
     playback_thread |-> 0,
     speak_pc |-> "idle",
     thread |-> [i \in Threads |-> [pc |-> "unborn", stream |-> "none"]],
     wrote |-> 0]

\* One fresh RPGGame, no call made yet, no state file on disk.
Init ==
    /\ character = NewGame.character
    /\ stats = NewGame.stats
    /\ context = NewGame.context
    /\ alive = NewGame.alive
    /\ history = NewGame.history
    /\ last_roll = NewGame.last_roll
    /\ last_action = NewGame.last_action
    /\ last_invalid = NewGame.last_invalid
    /\ call = Call("init", "", FALSE, FALSE, "constructed", {}, None)
    /\ probe = NoProbe
    /\ state_file = None
    /\ tui = NewApp
    /\ tts = NewTTS

(***************************************************************************)
(* Pure functions                                                          *)
(***************************************************************************)
\* Mutant: a total of exactly 5 passes.
roll_check_at_least_5(stat_value, difficulty, roll) ==
    LET result == roll + stat_value - difficulty
    IN  <<result >= 5, roll>>

\* roll_check with the drawn face passed in: <<success, roll>>.
roll_check(stat_value, difficulty, roll) ==
    LET result == roll + stat_value - difficulty
    IN  <<result > 5, roll>>

DefaultInterpretation == [valid |-> TRUE, stat |-> "body", difficulty |-> 3, lethal |-> FALSE]

\* Mutant: the difficulty is capped from above only.
clamp_difficulty_upper_only(d) == Min(5, d)

\* max(1, min(5, d))
clamp_difficulty(d) == Max(1, Min(5, d))

\* interpret_action on a response that was received (json.loads and the
\* normalisation inside the try block; whatever raises there, int() of the
\* difficulty included, ends in the default of the bare except).
interpret_action(resp) ==
    IF resp.kind # "json" THEN DefaultInterpretation
    ELSE IF resp.valid # None /\ ~resp.valid[1]
         THEN [valid |-> FALSE, reason |-> "That's not possible."]
    ELSE LET d == IF resp.difficulty = None THEN Some(3)
                  ELSE int_of_json(resp.difficulty[1])
         IN  IF d = None THEN DefaultInterpretation
             ELSE [valid |-> TRUE,
                   stat |-> IF resp.stat # None /\ resp.stat[1] \in {"mind", "body", "spirit"}
                            THEN resp.stat[1] ELSE "body",
                   difficulty |-> clamp_difficulty(d[1]),
                   lethal |-> IF resp.lethal = None THEN FALSE ELSE resp.lethal[1]]

\* Mutant: the miracle is tested before the death.
narrate_outcome_miracle_first(success, died, forced) ==
    IF forced /\ success THEN "MIRACULOUS"
    ELSE IF died THEN "DEATH"
    ELSE IF forced /\ ~success THEN "FAILURE"
    ELSE IF success THEN "SUCCESS" ELSE "FAILURE"

\* The outcome label narrate() puts into the narrator prompt.
narrate_outcome(success, died, forced) ==
    IF died THEN "DEATH"
    ELSE IF forced /\ success THEN "MIRACULOUS"
    ELSE IF forced /\ ~success THEN "FAILURE"
    ELSE IF success THEN "SUCCESS" ELSE "FAILURE"

(***************************************************************************)
(* generate_suggestions (engine.py and the copy in ui.py)                  *)
(***************************************************************************)
\* What the completion collaborator can do on a suggestions request: raise,
\* answer text that is not JSON, a JSON scalar, a JSON list of some length,
\* or a JSON object with some keys; `wrapped` is the length of the list
\* stored under the wrapper keys present (None: the value is no list).
SuggestionKeys == {"0", "1", "2", "suggestions", "actions", "x"}
SuggestionResponses ==
    { [kind |-> k, len |-> 0, keys |-> {}, wrapped |-> None] :
        k \in {"raise", "garbage", "scalar"} }
    \cup { [kind |-> "list", len |-> n, keys |-> {}, wrapped |-> None] :
            n \in 0..MaxListLen }
    \cup { [kind |-> "dict", len |-> 0, keys |-> ks, wrapped |-> w] :
            ks \in SUBSET SuggestionKeys,
            w \in {None} \cup {Some(n) : n \in 0..MaxListLen} }

\* What the caller gets: an exception, or a list of `count` entries that is
\* the constant fallback list or not.
Raises == [raised |-> TRUE, count |-> 0, fallback |-> FALSE]
Returns(n, isFallback) == [raised |-> FALSE, count |-> n, fallback |-> isFallback]
Fallback == Returns(3, TRUE)

\* engine.generate_suggestions: call_llm is called before the try opens.
generate_suggestions(resp) ==
    IF resp.kind = "raise" THEN Raises
    ELSE IF resp.kind = "garbage" THEN Fallback
    ELSE IF resp.kind = "list" /\ resp.len >= 3 THEN Returns(3, FALSE)
    ELSE IF resp.kind = "dict"
    THEN IF {"0", "1", "2"} \subseteq resp.keys THEN Returns(3, FALSE)
         ELSE IF "suggestions" \in resp.keys /\ resp.wrapped # None /\ resp.wrapped[1] >= 3
         THEN Returns(3, FALSE)
         ELSE IF Cardinality(resp.keys) >= 3 THEN Returns(3, FALSE)
         ELSE Fallback
    ELSE Fallback

\* ui.generate_suggestions: call_llm is inside the try; a list is taken only
\* when it has exactly three entries.
ui_generate_suggestions(resp) ==
    IF resp.kind \in {"raise", "garbage"} THEN Fallback
    ELSE IF resp.kind = "list" /\ resp.len = 3 THEN Returns(resp.len, FALSE)
    ELSE IF /\ resp.kind = "dict"
            /\ resp.keys \cap {"actions", "suggestions", "options"} # {}
            /\ resp.wrapped = Some(3)
    THEN Returns(3, FALSE)
    ELSE Fallback

(***************************************************************************)
(* RPGGame.start                                                           *)
(***************************************************************************)
\* Mutant: only the total is validated.
validate_stats_total_only(mind, body, spirit) ==
    IF mind + body + spirit # 9 THEN "error_stat_total" ELSE "ok"

\* The two validation returns at the head of start(): "ok" or the error.
validate_stats(mind, body, spirit) ==
    IF ~(1 <= mind /\ mind <= 5 /\ 1 <= body /\ body <= 5 /\ 1 <= spirit /\ spirit <= 5)
    THEN "error_stat_range"
    ELSE IF mind + body + spirit # 9 THEN "error_stat_total"
    ELSE "ok"

\* The assignments made before opening_scene() is awaited.
start_before_opening(g, ch, mind, body, spirit) ==
    [g EXCEPT !.character = Some(ch),
              !.stats = Some([mind |-> mind, body |-> body, spirit |-> spirit])]

\* Mutant: the undo stack survives the restart.
start_after_opening_keeps_history(g, text) ==
    [g EXCEPT !.context = text, !.alive = TRUE, !.last_roll = None]

\* Mutant: a restart does not revive the character.
start_after_opening_keeps_dead(g, text) ==
    [g EXCEPT !.context = text, !.history = <<>>, !.last_roll = None]

\* The assignments made once opening_scene() has returned its text.
start_after_opening(g, text) ==
    [g EXCEPT !.context = text, !.alive = TRUE, !.history = <<>>, !.last_roll = None]

\* The record of a start() call: the character text is kept in `action`,
\* the three stat arguments in `triple`.
StartCall(ch, mind, body, spirit, status, consulted, text) ==
    [op |-> "start", action |-> ch, force |-> FALSE, god_mode |-> FALSE,
     status |-> status, consulted |-> consulted, text |-> text,
     triple |-> <<mind, body, spirit>>]

\* Mutant: the character is installed before the stats are validated.
start_rejected_installs_character(g, ch) == [g EXCEPT !.character = Some(ch)]

\* The fields after one of the two validation returns: nothing was written.
start_rejected(g, ch) == g

\* start(character, mind, body, spirit) with the collaborator's answer
\* `opening` (None: the request raised). Result: <<new fields, call record>>.
start(g, ch, mind, body, spirit, opening) ==
    LET v == validate_stats(mind, body, spirit)
    IN  IF v # "ok"
        THEN <<start_rejected(g, ch), StartCall(ch, mind, body, spirit, v, {}, None)>>
        ELSE IF opening = None
        THEN <<start_before_opening(g, ch, mind, body, spirit),
               StartCall(ch, mind, body, spirit, "raised_opening", {"opening"}, None)>>
        ELSE <<start_after_opening(start_before_opening(g, ch, mind, body, spirit), opening[1]),
               StartCall(ch, mind, body, spirit, "started", {"opening"}, opening)>>

(***************************************************************************)
(* RPGGame.take_action                                                     *)
(***************************************************************************)
\* Mutant: the game-over test is missing.
is_game_over_missing(g) == FALSE

\* The two precondition tests at the head of take_action().
is_game_over(g) == ~g.alive
not_started(g) == ~Truthy(g.character)

\* The condition of the force branch.
force_path(g, force) == force /\ Truthy(g.last_action) /\ g.last_invalid

ForceInterpretation == [valid |-> TRUE, stat |-> "spirit", difficulty |-> 5, lethal |-> FALSE]
GodInterpretation == [valid |-> TRUE, stat |-> "spirit", difficulty |-> 1, lethal |-> FALSE]

\* Which text the turn is about: the remembered one on the force branch.
effective_action(g, action, force) ==
    IF force_path(g, force) THEN g.last_action[1] ELSE action

\* "interpreter" when interpret_action() is called, otherwise the branch taken.
interpretation_source(g, force, god_mode) ==
    IF force_path(g, force) THEN "force"
    ELSE IF god_mode THEN "god"
    ELSE "interpreter"

\* Mutant: god mode rolls the dice like any other turn.
resolve_dice_always_rolls(god_mode, stat_value, difficulty, roll) ==
    roll_check(stat_value, difficulty, roll)

\* The dice step: the override of god mode, or roll_check.
resolve_dice(god_mode, stat_value, difficulty, roll) ==
    IF god_mode THEN <<TRUE, 10>> ELSE roll_check(stat_value, difficulty, roll)

\* Mutant: every failed check is fatal.
died_on_any_failure(lethal, success) == ~success

\* died = lethal and not success.
died_of(lethal, success) == lethal /\ ~success

\* The `forced` argument take_action hands to narrate().
is_miraculous(force, god_mode) == force \/ god_mode

\* The dict stored in self.last_roll.
make_roll(action, interp, stat_value, dice, force, god_mode) ==
    LET success == dice[1]
        roll == dice[2]
    IN  [action |-> action,
         stat |-> interp.stat,
         stat_value |-> stat_value,
         difficulty |-> interp.difficulty,
         lethal |-> interp.lethal,
         roll |-> roll,
         total |-> roll + stat_value - interp.difficulty,
         success |-> success,
         died |-> died_of(interp.lethal, success),
         forced |-> force,
         miraculous |-> (force \/ god_mode) /\ success]

\* Mutant: the rejected action also pushes an undo frame.
after_invalid_pushes_frame(g, action) ==
    [g EXCEPT !.last_action = Some(action), !.last_invalid = TRUE,
              !.history = Append(@, <<g.context, g.last_roll>>)]

\* The rejected-action branch.
after_invalid(g, action) ==
    [g EXCEPT !.last_action = Some(action), !.last_invalid = TRUE]

\* Mutant: the flag of the rejected action survives the resolved turn.
after_roll_keeps_invalid(g, r) ==
    [g EXCEPT !.history = Append(@, <<g.context, g.last_roll>>),
              !.last_roll = Some(r)]

\* A valid interpretation: clear the flag, push the undo frame, store the roll.
after_roll(g, r) ==
    [g EXCEPT !.last_invalid = FALSE,
              !.history = Append(@, <<g.context, g.last_roll>>),
              !.last_roll = Some(r)]

\* Mutant: the failure message of the narrator ends up in context.
after_narrator_raise_error_text(g, r) ==
    [after_roll(g, r) EXCEPT !.context = "narration failed"]

\* What a raising narrate() leaves behind of the fields written before it.
after_narrator_raise(g, r) == after_roll(g, r)

\* narrate() returned: take the text as context, record a death.
after_narrate(g, r, text) ==
    [after_roll(g, r) EXCEPT !.context = text,
                             !.alive = IF r.died THEN FALSE ELSE @]

turn_status(r) ==
    IF r.died THEN "death" ELSE IF r.success THEN "success" ELSE "failure"

\* take_action(action, force, god_mode) with the collaborators' answers:
\* resp (interpreter), roll (the face drawn), narr (narrator; None: raised).
\* Result: <<new fields, call record>>.
take_action(g, action, force, god_mode, resp, roll, narr) ==
    IF is_game_over(g)
    THEN <<g, Call("take_action", action, force, god_mode, "error_game_over", {}, None)>>
    ELSE IF not_started(g)
    THEN <<g, Call("take_action", action, force, god_mode, "error_not_started", {}, None)>>
    ELSE
    LET src == interpretation_source(g, force, god_mode)
        act == effective_action(g, action, force)
    IN  IF src = "interpreter" /\ resp.kind = "raise"
        THEN <<g, Call("take_action", action, force, god_mode, "raised_interpreter",
                       {"interpreter"}, None)>>
        ELSE
        LET interp == IF src = "force" THEN ForceInterpretation
                      ELSE IF src = "god" THEN GodInterpretation
                      ELSE interpret_action(resp)
            asked == IF src = "interpreter" THEN {"interpreter"} ELSE {}
        IN  IF ~interp.valid
            THEN <<after_invalid(g, act),
                   Call("take_action", action, force, god_mode, "invalid", asked, None)>>
            ELSE
            LET stat_value == g.stats[1][interp.stat]
                dice == resolve_dice(god_mode, stat_value, interp.difficulty, roll)
                r == make_roll(act, interp, stat_value, dice, force, god_mode)
                rolled == IF god_mode THEN {} ELSE {"dice"}
            IN  IF narr = None
                THEN <<after_narrator_raise(g, r),
                       Call("take_action", action, force, god_mode, "raised_narrator",
                            asked \cup rolled \cup {"narrator"}, None)>>
                ELSE <<after_narrate(g, r, narr[1]),
                       Call("take_action", action, force, god_mode, turn_status(r),
                            asked \cup rolled \cup {"narrator"}, narr)>>

(***************************************************************************)
(* RPGGame.undo                                                            *)
(***************************************************************************)
\* Mutant: the pop without the resurrection.
undo_restore_keeps_dead(g) ==
    LET frame == g.history[Len(g.history)]
    IN  [g EXCEPT !.context = frame[1],
                  !.last_roll = frame[2],
                  !.history = SubSeq(@, 1, Len(@) - 1)]

\* Mutant: the pop restores the narrative but not the last outcome.
undo_restore_keeps_roll(g) ==
    LET frame == g.history[Len(g.history)]
    IN  [g EXCEPT !.context = frame[1],
                  !.history = SubSeq(@, 1, Len(@) - 1),
                  !.alive = TRUE]

\* The pop and the resurrection.
undo_restore(g) ==
    LET frame == g.history[Len(g.history)]
    IN  [g EXCEPT !.context = frame[1],
                  !.last_roll = frame[2],
                  !.history = SubSeq(@, 1, Len(@) - 1),
                  !.alive = TRUE]

\* Mutant: the refused undo also drops the pending rejected action.
undo_rejected_clears_invalid(g) == [g EXCEPT !.last_invalid = FALSE]

\* The fields after the refusal on an empty history: nothing was written.
undo_rejected(g) == g

undo(g) ==
    IF g.history = <<>>
    THEN <<undo_rejected(g), Call("undo", "", FALSE, FALSE, "error_nothing_to_undo", {}, None)>>
    ELSE <<undo_restore(g), Call("undo", "", FALSE, FALSE, "undone", {}, None)>>

(***************************************************************************)
(* RPGGame.get_state: the two derived flags                                *)
(***************************************************************************)
can_undo(g) == Len(g.history) > 0

\* Mutant: can_force tests the remembered text the way take_action does.
can_force_truthy(g) == g.last_invalid /\ Truthy(g.last_action)

can_force(g) == g.last_invalid /\ g.last_action # None

\* The dict get_state() returns.
get_state(g) ==
    [character |-> g.character, stats |-> g.stats, alive |-> g.alive,
     narrative |-> g.context, last_roll |-> g.last_roll,
     can_undo |-> can_undo(g), can_force |-> can_force(g)]

(***************************************************************************)
(* Actions: one per method call on the one RPGGame instance                *)
(***************************************************************************)
Start ==
    \E ch \in Characters, t \in StatTriples, opening \in OpeningResponses :
        \E res \in {start(Game, ch, t[1], t[2], t[3], opening)} :
            Install(res[1], res[2])

\* The collaborators a take_action call with these arguments reaches.
reads(g, action, force, god_mode, resp) ==
    take_action(g, action, force, god_mode, resp, DiceLow, None)[2].consulted

\* An answer is drawn only from a collaborator the call reaches; the answer
\* of one it does not reach is fixed.
TakeAction ==
    \E c \in Calls :
     LET action == c[1]
         force == c[2]
         god_mode == c[3]
     IN
      \E resp \in (IF "interpreter" \in reads(Game, action, force, god_mode, GarbageResp)
                   THEN InterpResponses ELSE {GarbageResp}) :
        \E roll \in (IF "dice" \in reads(Game, action, force, god_mode, resp)
                     THEN DiceRolls ELSE {DiceLow}),
           narr \in (IF "narrator" \in reads(Game, action, force, god_mode, resp)
                     THEN NarratorResponses ELSE {None}) :
            \E res \in {take_action(Game, action, force, god_mode, resp, roll, narr)} :
                /\ Len(res[1].history) <= MaxHistory
                /\ Install(res[1], res[2])

Undo ==
    \E res \in {undo(Game)} :
        Install(res[1], res[2])

\* get_state(): the dict returned is kept in the call record.
GetState ==
    Install(Game, [op |-> "get_state", action |-> "", force |-> FALSE,
                   god_mode |-> FALSE, status |-> "state", consulted |-> {},
                   text |-> None, out |-> get_state(Game)])

Next == Start \/ TakeAction \/ Undo \/ GetState

Spec == Init /\ [][Next]_vars

(***************************************************************************)
(* The game restarted with other stats: start() drawn from two valid       *)
(* triples that differ in the stat the interpreter's checks use.           *)
(***************************************************************************)
RestartTriples == {<<5, 3, 1>>, <<3, 5, 1>>}

Restart ==
    \E ch \in Characters, t \in RestartTriples, opening \in OpeningResponses :
        \E res \in {start(Game, ch, t[1], t[2], t[3], opening)} :
            Install(res[1], res[2])

NextRestart == Restart \/ TakeAction \/ Undo

SpecRestart == Init /\ [][NextRestart]_vars

(***************************************************************************)
(* The functions applied on their own, over their whole input ranges       *)
(***************************************************************************)
\* Each behaviour applies one function once, to one input.
\* roll_check(stat_value, difficulty) for every legal stat and difficulty
\* and every face random.randint(1, 10) can draw.
ProbeRollCheck ==
    /\ probe = NoProbe
    /\ \E sv \in StatMin..StatMax, d \in StatMin..StatMax, roll \in DiceLow..DiceHigh :
          probe' = [fn |-> "roll_check", args |-> <<sv, d, roll>>,
                    out |-> roll_check(sv, d, roll)]
    /\ UNCHANGED <<gameVars, call, state_file, tui, tts>>

\* start() on a fresh object for every triple of 0..MaxStatInput, with the
\* opening-scene request returning or raising; out is the call's status.
ProbeStart ==
    /\ probe = NoProbe
    /\ \E ch \in Characters, m \in 0..MaxStatInput, b \in 0..MaxStatInput,
          s \in 0..MaxStatInput, opening \in OpeningResponses :
          probe' = [fn |-> "start", args |-> <<m, b, s, opening>>,
                    out |-> start(NewGame, ch, m, b, s, opening)[2].status]
    /\ UNCHANGED <<gameVars, call, state_file, tui, tts>>

\* The answers to an interpreter request that interpret_action is applied
\* to: every combination of absent / present keys, recognised and
\* unrecognised stats, difficulties as numbers of -1..MaxDifficultyInput or
\* as strings (a numeral, a word), and the two answers that are no object.
ProbeInterpResponses ==
    {GarbageResp, NonObjectResp} \cup
    { JsonResp(v, st, d, l) :
        v \in {None, Some(TRUE), Some(FALSE)},
        st \in {None, Some("mind"), Some("body"), Some("spirit"), Some("luck")},
        d \in {None} \cup {Some(JNum(n)) : n \in -1..MaxDifficultyInput}
                     \cup {Some(JWord("3")), Some(JWord("hard"))},
        l \in {None, Some(TRUE), Some(FALSE)} }

ProbeInterpret ==
    /\ probe = NoProbe
    /\ \E resp \in ProbeInterpResponses :
          probe' = [fn |-> "interpret_action", args |-> <<resp>>,
                    out |-> interpret_action(resp)]
    /\ UNCHANGED <<gameVars, call, state_file, tui, tts>>

\* A game right after a successful start, and the same game with a rejected
\* action pending.
StartedGame == start(NewGame, "goblin", 5, 3, 1, Some("o1"))[1]
PendingGame == after_invalid(StartedGame, "fly")

\* One take_action on such a game in every mode, the interpreter answering
\* any of ProbeInterpResponses; out is the status and the roll recorded.
ProbeTurn ==
    /\ probe = NoProbe
    /\ \E g \in {StartedGame, PendingGame}, c \in Calls :
        \E resp \in (IF "interpreter" \in reads(g, c[1], c[2], c[3], GarbageResp)
                     THEN ProbeInterpResponses ELSE {GarbageResp}),
           roll \in DiceRolls, narr \in NarratorResponses :
            \E res \in {take_action(g, c[1], c[2], c[3], resp, roll, narr)} :
                probe' = [fn |-> "take_action", args |-> <<g, c, resp, roll, narr>>,
                          out |-> [status |-> res[2].status,
                                   consulted |-> res[2].consulted,
                                   game |-> res[1]]]
    /\ UNCHANGED <<gameVars, call, state_file, tui, tts>>

\* The label of narrate() for every combination of its three flags.
ProbeNarrate ==
    /\ probe = NoProbe
    /\ \E success \in BOOLEAN, died \in BOOLEAN, forced \in BOOLEAN :
          probe' = [fn |-> "narrate", args |-> <<success, died, forced>>,
                    out |-> narrate_outcome(success, died, forced)]
    /\ UNCHANGED <<gameVars, call, state_file, tui, tts>>

\* Both copies of generate_suggestions on every answer of SuggestionResponses.
ProbeSuggestions ==
    /\ probe = NoProbe
    /\ \E resp \in SuggestionResponses, impl \in {"engine", "ui"} :
          probe' = [fn |-> "generate_suggestions", args |-> <<impl, resp>>,
                    out |-> IF impl = "engine" THEN generate_suggestions(resp)
                            ELSE ui_generate_suggestions(resp)]
    /\ UNCHANGED <<gameVars, call, state_file, tui, tts>>

NextPure ==
    \/ ProbeRollCheck \/ ProbeStart \/ ProbeInterpret \/ ProbeTurn \/ ProbeNarrate
    \/ ProbeSuggestions

SpecPure == Init /\ [][NextPure]_vars

(***************************************************************************)
(* Vocabulary of the claims                                                *)
(***************************************************************************)
\* A step is made by the call recorded in call'.
ByTakeAction == call'.op = "take_action"
ByUndo == call'.op = "undo"
ByStart == call'.op = "start"

ResolvedStatuses == {"success", "failure", "death"}
\* The statuses of the calls that returned {"error": ...}.
ErrorStatuses == {"error_game_over", "error_not_started", "error_nothing_to_undo",
                  "error_stat_range", "error_stat_total"}

\* ACTIVE: a character is installed and alive.
Active == alive /\ Truthy(character)

TopFrame == history[Len(history)]

\* ACTIVE with the opening scene received (a start() has run to its end).
Opened == Active /\ context # ""

\* The call made the step without any collaborator raising.
NoRaise == call'.status \notin {"raised_opening", "raised_interpreter", "raised_narrator"}

(***************************************************************************)
(* C1..C10                                                                 *)
(***************************************************************************)

\* C1: while alive is false every take_action call, in any mode, returns the
\* game-over error and changes no field; alive goes from false to true only
\* by a successful undo() or a successful start().
C1_DeadGameRejectsActions ==
    [][ /\ (~alive /\ ByTakeAction) =>
              (call'.status = "error_game_over" /\ UNCHANGED gameVars)
        /\ (~alive /\ alive') =>
              \/ (ByUndo /\ call'.status = "undone")
              \/ (ByStart /\ call'.status = "started") ]_vars

\* A god-mode call on a dead game was answered with the game-over error.
C1_Witness ==
    ~alive /\ call.op = "take_action" /\ call.god_mode /\ call.status = "error_game_over"

\* C2: the length of history changes by +1 exactly on a resolved turn, by -1
\* exactly on a successful undo, is reset by a successful start and is left
\* alone by every other call (so it counts resolved turns minus undos).
C2_HistoryCountsResolvedTurns ==
    [][ Len(history') =
          IF ByStart /\ call'.status = "started" THEN 0
          ELSE IF ByTakeAction /\ call'.status \in ResolvedStatuses THEN Len(history) + 1
          ELSE IF ByUndo /\ call'.status = "undone" THEN Len(history) - 1
          ELSE Len(history) ]_vars

\* C3: undo() on a non-empty history pops exactly the top frame, makes its
\* (context, outcome) pair current and sets alive.
C3_UndoRestoresTopFrame ==
    [][ (ByUndo /\ history # <<>>) =>
          /\ call'.status = "undone"
          /\ history' = SubSeq(history, 1, Len(history) - 1)
          /\ context' = TopFrame[1]
          /\ last_roll' = TopFrame[2]
          /\ alive'
          /\ UNCHANGED <<character, stats, last_action, last_invalid>> ]_vars

\* An undo has popped one frame of two and the game is alive.
C3_Witness ==
    call.op = "undo" /\ call.status = "undone" /\ Len(history) = 1 /\ alive

\* C4: a normal-mode call answered "invalid" remembers the submitted text,
\* sets last_invalid (can_force becomes true), rolls no dice and leaves
\* context, history, last outcome and alive alone; when the same text is
\* already the pending rejected one, the call changes no field at all.
C4_InvalidActionIsNoOpTurn ==
    [][ (ByTakeAction /\ ~call'.force /\ ~call'.god_mode /\ call'.status = "invalid") =>
          /\ last_action' = Some(call'.action)
          /\ last_invalid'
          /\ can_force(Game)'
          /\ call'.consulted = {"interpreter"}
          /\ UNCHANGED <<character, stats, context, history, last_roll, alive>>
          /\ (last_invalid /\ last_action = Some(call'.action)) => UNCHANGED gameVars ]_vars

\* A rejected normal-mode action is pending after a resolved turn.
C4_Witness ==
    /\ call.op = "take_action" /\ ~call.force /\ ~call.god_mode /\ call.status = "invalid"
    /\ last_invalid /\ last_action = Some("fly") /\ last_roll # None

\* C5: when the narrator call raises, history, the last outcome and alive
\* are exactly as they were before the call.
C5_NarratorFailureKeepsState ==
    [][ (ByTakeAction /\ Opened /\ call'.status = "raised_narrator") =>
          UNCHANGED <<history, last_roll, alive>> ]_vars

\* C6: context is only ever set to the text a successful opening-scene or
\* narrator call returned, or to the context of the frame undo pops; every
\* other call, a raising narrator included, leaves it alone.
C6_ContextOnlyFromSuccessfulCalls ==
    [][ context' =
          IF (ByStart /\ call'.status = "started")
             \/ (ByTakeAction /\ call'.status \in ResolvedStatuses)
          THEN call'.text[1]
          ELSE IF ByUndo /\ call'.status = "undone" THEN TopFrame[1]
          ELSE context ]_vars

\* The narrator raised and the context is still the opening scene.
C6_Witness ==
    call.status = "raised_narrator" /\ context \in OpeningTexts

\* C7: when can_force holds, a call with force=true (no collaborator
\* raising) does not consult the interpreter and records an outcome for the
\* remembered text with stat spirit, difficulty 5, lethal false, whatever
\* text was passed.
C7_ForceReplaysRememberedAction ==
    [][ (ByTakeAction /\ call'.force /\ Opened /\ can_force(Game) /\ NoRaise) =>
          /\ "interpreter" \notin call'.consulted
          /\ last_roll' # None
          /\ last_roll'[1].action = last_action[1]
          /\ last_roll'[1].stat = "spirit"
          /\ last_roll'[1].difficulty = 5
          /\ ~last_roll'[1].lethal ]_vars

\* C8: a call with force=true on an ACTIVE game with nothing to force is
\* answered with an error, calls no collaborator and changes no field.
C8_ForceWithNothingToForceIsError ==
    [][ (ByTakeAction /\ call'.force /\ Opened /\ ~can_force(Game) /\ NoRaise) =>
          /\ call'.status \in ErrorStatuses
          /\ call'.consulted = {}
          /\ UNCHANGED gameVars ]_vars

\* C9 as stated: every god-mode call on an ACTIVE game records an outcome
\* with stat spirit, difficulty 1, lethal false, roll 10, success, and
\* consults neither the interpreter nor the dice.
C9_GodModeAlwaysDifficultyOne ==
    [][ (ByTakeAction /\ call'.god_mode /\ Opened /\ NoRaise) =>
          /\ "interpreter" \notin call'.consulted
          /\ "dice" \notin call'.consulted
          /\ last_roll' # None
          /\ last_roll'[1].stat = "spirit"
          /\ last_roll'[1].difficulty = 1
          /\ ~last_roll'[1].lethal
          /\ last_roll'[1].roll = 10
          /\ last_roll'[1].success ]_vars

\* C9 amended: the same, for the god-mode calls that do not take the force
\* branch (force not set, or no rejected action to replay).
C9_GodModeWithoutForceBranch ==
    [][ (ByTakeAction /\ call'.god_mode /\ Active /\ ~force_path(Game, call'.force)) =>
          /\ "interpreter" \notin call'.consulted
          /\ "dice" \notin call'.consulted
          /\ last_roll' # None
          /\ last_roll'[1].action = call'.action
          /\ last_roll'[1].stat = "spirit"
          /\ last_roll'[1].difficulty = 1
          /\ ~last_roll'[1].lethal
          /\ last_roll'[1].roll = 10
          /\ last_roll'[1].success ]_vars

\* A god-mode turn (force not set) was resolved with roll 10 at difficulty 1.
C9_Witness ==
    /\ call.op = "take_action" /\ call.god_mode /\ ~call.force /\ call.status = "success"
    /\ last_roll # None /\ last_roll[1].roll = 10 /\ last_roll[1].difficulty = 1

\* C10: with both flags set and a rejected action pending (here: one with a
\* non-empty text, so that the force branch is taken), the turn is a force
\* turn throughout: remembered text, spirit at difficulty 5, and the dice
\* are rolled by roll_check, not replaced by god mode's roll.
C10_ForceWinsOverGodMode ==
    [][ (ByTakeAction /\ call'.force /\ call'.god_mode /\ Opened
           /\ can_force(Game) /\ Truthy(last_action) /\ NoRaise) =>
          /\ "dice" \in call'.consulted
          /\ last_roll' # None
          /\ last_roll'[1].action = last_action[1]
          /\ last_roll'[1].stat = "spirit"
          /\ last_roll'[1].difficulty = 5 ]_vars

(***************************************************************************)
(* play_cli.py: one process per command, the game pickled in between       *)
(***************************************************************************)
\* Argument lists of the start command: too short, a valid triple, a stat
\* out of range, a wrong total, a word that is no integer.
StartArgLists ==
    { <<"goblin">>,
      <<"goblin", "5", "3", "1">>,
      <<"goblin", "0", "4", "5">>,
      <<"goblin", "3", "3", "4">>,
      <<"goblin", "x", "3", "1">> }

\* Argument lists of the action and god commands: none, or one word.
ActionArgLists == { <<>>, <<"fly">> }

\* " ".join(args) for the one-word lists of ActionArgLists.
join(args) == args[1]

\* load_game: the unpickled object, or a fresh one when there is no file.
load_game(file) == IF file = None THEN NewGame ELSE file[1]

\* save_game: the file now holds the pickled object.
save_game(g) == Some(g)

\* The record of one command: its name and arguments, what it printed (or
\* that it died with a traceback), the collaborators reached, the prose.
CliCall(op, args, status, consulted, text) ==
    [op |-> op, args |-> args, status |-> status, consulted |-> consulted,
     text |-> text]

Raised == {"raised_opening", "raised_interpreter", "raised_narrator"}

\* The three lines that end cmd_action / cmd_force / cmd_god: the engine
\* call, then save_game unless the call raised and the process died.
call_and_save(file, op, args, res) ==
    <<IF res[2].status \in Raised THEN file ELSE save_game(res[1]),
      CliCall(op, args, res[2].status, res[2].consulted, res[2].text)>>

\* cmd_start: <<file afterwards, command record>>.
cmd_start(file, args, opening) ==
    IF Len(args) < 4
    THEN <<file, CliCall("cmd_start", args, "error_usage", {}, None)>>
    ELSE IF int(args[2]) = None \/ int(args[3]) = None \/ int(args[4]) = None
    THEN <<file, CliCall("cmd_start", args, "error_not_integers", {}, None)>>
    ELSE call_and_save(file, "cmd_start", args,
                       start(NewGame, args[1], int(args[2])[1], int(args[3])[1],
                             int(args[4])[1], opening))

cmd_action(file, args, resp, roll, narr) ==
    IF args = <<>>
    THEN <<file, CliCall("cmd_action", args, "error_usage", {}, None)>>
    ELSE IF ~Truthy(load_game(file).character)
    THEN <<file, CliCall("cmd_action", args, "error_no_game", {}, None)>>
    ELSE call_and_save(file, "cmd_action", args,
                       take_action(load_game(file), join(args), FALSE, FALSE,
                                   resp, roll, narr))

cmd_force(file, args, resp, roll, narr) ==
    IF ~Truthy(load_game(file).character)
    THEN <<file, CliCall("cmd_force", args, "error_no_game", {}, None)>>
    ELSE IF ~load_game(file).last_invalid
    THEN <<file, CliCall("cmd_force", args, "error_nothing_to_force", {}, None)>>
    ELSE call_and_save(file, "cmd_force", args,
                       take_action(load_game(file), "", TRUE, FALSE,
                                   resp, roll, narr))

cmd_god(file, args, resp, roll, narr) ==
    IF args = <<>>
    THEN <<file, CliCall("cmd_god", args, "error_usage", {}, None)>>
    ELSE IF ~Truthy(load_game(file).character)
    THEN <<file, CliCall("cmd_god", args, "error_no_game", {}, None)>>
    ELSE call_and_save(file, "cmd_god", args,
                       take_action(load_game(file), join(args), FALSE, TRUE,
                                   resp, roll, narr))

\* cmd_state prints get_state() and writes nothing.
cmd_state(file) ==
    <<file, [op |-> "cmd_state", args |-> <<>>, status |-> "state", consulted |-> {},
             text |-> None, out |-> get_state(load_game(file))]>>

cmd_undo(file) ==
    call_and_save(file, "cmd_undo", <<>>, undo(load_game(file)))

\* The file and the command record after one command; the object of the
\* in-memory specification is not the CLI's.
InstallFile(res) ==
    /\ state_file' = res[1]
    /\ call' = res[2]
    /\ (res[1] # None => Len(res[1][1].history) <= MaxHistory)
    /\ UNCHANGED <<gameVars, probe, tui, tts>>

\* The collaborators a command with these answers reaches.
cli_reads(res) == res[2].consulted

CmdStart ==
    \E args \in StartArgLists, opening \in OpeningResponses :
        \E res \in {cmd_start(state_file, args, opening)} : InstallFile(res)

\* The dispatch of main() for the three commands that play a turn.
COMMANDS(cmd, file, args, resp, roll, narr) ==
    CASE cmd = "action" -> cmd_action(file, args, resp, roll, narr)
      [] cmd = "force" -> cmd_force(file, args, resp, roll, narr)
      [] cmd = "god" -> cmd_god(file, args, resp, roll, narr)

\* The answers <<resp, roll, narr>> a turn command can meet: as in
\* TakeAction, an answer is drawn only from a collaborator the command
\* reaches, and the answer of one it does not reach is fixed.
TurnAnswers(cmd, args) ==
    { i \in (InterpResponses \cup {GarbageResp}) \X (DiceRolls \cup {DiceLow})
             \X NarratorResponses :
        /\ i[1] \in (IF "interpreter" \in cli_reads(COMMANDS(cmd, state_file, args, GarbageResp, DiceLow, None))
                     THEN InterpResponses ELSE {GarbageResp})
        /\ i[2] \in (IF "dice" \in cli_reads(COMMANDS(cmd, state_file, args, i[1], DiceLow, None))
                     THEN DiceRolls ELSE {DiceLow})
        /\ i[3] \in (IF "narrator" \in cli_reads(COMMANDS(cmd, state_file, args, i[1], DiceLow, None))
                     THEN NarratorResponses ELSE {None}) }

CmdAction ==
    \E args \in ActionArgLists :
        \E i \in TurnAnswers("action", args) :
            \E res \in {cmd_action(state_file, args, i[1], i[2], i[3])} : InstallFile(res)

CmdForce ==
    \E i \in TurnAnswers("force", <<>>) :
        \E res \in {cmd_force(state_file, <<>>, i[1], i[2], i[3])} : InstallFile(res)

CmdGod ==
    \E args \in ActionArgLists :
        \E i \in TurnAnswers("god", args) :
            \E res \in {cmd_god(state_file, args, i[1], i[2], i[3])} : InstallFile(res)

CmdState == \E res \in {cmd_state(state_file)} : InstallFile(res)
CmdUndo == \E res \in {cmd_undo(state_file)} : InstallFile(res)

NextCLI == CmdStart \/ CmdAction \/ CmdForce \/ CmdGod \/ CmdState \/ CmdUndo

SpecCLI == Init /\ [][NextCLI]_vars

(***************************************************************************)
(* The same commands given to the CLI and to one object kept in memory     *)
(***************************************************************************)
\* One command has run on both sides with the same collaborator answers:
\* mem is the engine's <<fields, call>>, cli the CLI's <<file, command>>.
InstallBoth(mem, cli) ==
    /\ character' = mem[1].character
    /\ stats' = mem[1].stats
    /\ context' = mem[1].context
    /\ alive' = mem[1].alive
    /\ history' = mem[1].history
    /\ last_roll' = mem[1].last_roll
    /\ last_action' = mem[1].last_action
    /\ last_invalid' = mem[1].last_invalid
    /\ state_file' = cli[1]
    /\ call' = [op |-> cli[2].op, args |-> cli[2].args,
                status |-> cli[2].status, mem_status |-> mem[2].status]
    /\ Len(mem[1].history) <= MaxHistory
    /\ (cli[1] # None => Len(cli[1][1].history) <= MaxHistory)
    /\ UNCHANGED <<probe, tui, tts>>

\* Argument lists of the start command that reach RPGGame.start.
ParsedStartArgLists ==
    {a \in StartArgLists :
        Len(a) = 4 /\ int(a[2]) # None /\ int(a[3]) # None /\ int(a[4]) # None}

BothStart ==
    \E args \in ParsedStartArgLists, opening \in OpeningResponses :
        InstallBoth(start(Game, args[1], int(args[2])[1], int(args[3])[1],
                          int(args[4])[1], opening),
                    cmd_start(state_file, args, opening))

BothAction ==
    \E args \in ActionArgLists \ {<<>>}, resp \in InterpResponses,
       roll \in DiceRolls, narr \in NarratorResponses :
        InstallBoth(take_action(Game, join(args), FALSE, FALSE, resp, roll, narr),
                    cmd_action(state_file, args, resp, roll, narr))

BothForce ==
    \E resp \in InterpResponses, roll \in DiceRolls, narr \in NarratorResponses :
        InstallBoth(take_action(Game, "", TRUE, FALSE, resp, roll, narr),
                    cmd_force(state_file, <<>>, resp, roll, narr))

BothGod ==
    \E args \in ActionArgLists \ {<<>>}, resp \in InterpResponses,
       roll \in DiceRolls, narr \in NarratorResponses :
        InstallBoth(take_action(Game, join(args), FALSE, TRUE, resp, roll, narr),
                    cmd_god(state_file, args, resp, roll, narr))

BothUndo == InstallBoth(undo(Game), cmd_undo(state_file))

NextBoth == BothStart \/ BothAction \/ BothForce \/ BothGod \/ BothUndo

SpecBoth == Init /\ [][NextBoth]_vars

(***************************************************************************)
(* ui.py: the RPGApp. Handlers run to completion one at a time; a worker   *)
(* started with run_worker(..., exclusive=True) is scheduled by the        *)
(* handler, runs later up to its next await, and is cancelled at that      *)
(* await when the next exclusive worker is started.                        *)
(***************************************************************************)
\* Lines typed into the action input, as their words; and the text of a
\* suggestion button.
TypedLines == { <<"fly">>, <<"!">>, <<"/god", "fly">> }
SuggestionText == <<"fly">>

\* Answers of the interpreter to the TUI (a raising request ends the worker
\* with an error and is not followed here).
UiInterpResponses == InterpResponses \ {RaiseResp}

\* run_worker(self._handle_action_async(action), exclusive=True)
handle_action(u, line) ==
    [u EXCEPT !.worker = [kind |-> "action", pc |-> "scheduled", line |-> line]]

\* start_game: guarded by _game_starting, then run_worker(_start_game_async).
start_game(u) ==
    IF u.game_starting THEN u
    ELSE [u EXCEPT !.game_starting = TRUE,
                   !.worker = [kind |-> "start", pc |-> "scheduled"]]

remaining(u) == 9 - (u.alloc_mind + u.alloc_body + u.alloc_spirit)

\* on_key, Enter on the title screen (a key is stored, no model is loading).
key_enter_title(u) == [u EXCEPT !.creation_phase = "name"]

\* on_input_submitted for the name input.
submit_name(u, name) == [u EXCEPT !.character = name, !.creation_phase = "stats"]

\* on_button_pressed for the six +/- buttons.
press_stat_button(u, button_id) ==
    IF button_id = "mind-minus" /\ u.alloc_mind > 1
    THEN [u EXCEPT !.alloc_mind = @ - 1]
    ELSE IF button_id = "mind-plus" /\ u.alloc_mind < 5
    THEN [u EXCEPT !.alloc_mind = @ + 1]
    ELSE IF button_id = "body-minus" /\ u.alloc_body > 1
    THEN [u EXCEPT !.alloc_body = @ - 1]
    ELSE IF button_id = "body-plus" /\ u.alloc_body < 5
    THEN [u EXCEPT !.alloc_body = @ + 1]
    ELSE IF button_id = "spirit-minus" /\ u.alloc_spirit > 1
    THEN [u EXCEPT !.alloc_spirit = @ - 1]
    ELSE IF button_id = "spirit-plus" /\ u.alloc_spirit < 5
    THEN [u EXCEPT !.alloc_spirit = @ + 1]
    ELSE u

\* on_button_pressed for confirm-btn, and on_key for Enter on the stat screen.
press_confirm(u) ==
    IF u.game_starting THEN u
    ELSE IF remaining(u) = 0 THEN start_game(u) ELSE u

\* on_key, Enter in the action input.
key_enter_game(u, line) ==
    IF u.alive /\ u.game_started THEN handle_action(u, line) ELSE u

\* on_button_pressed for the three suggestion buttons.
press_suggestion(u) == handle_action(u, SuggestionText)

\* on_button_pressed for force-btn.
press_force(u) ==
    IF Truthy(u.last_action) /\ u.last_invalid THEN handle_action(u, <<"!">>) ELSE u

\* action_undo (the Undo button and ctrl+z).
action_undo(u) ==
    IF u.history # <<>>
    THEN [u EXCEPT !.context = u.history[Len(u.history)][1],
                   !.last_roll_text = u.history[Len(u.history)][2],
                   !.history = SubSeq(@, 1, Len(@) - 1),
                   !.alive = TRUE,
                   !.force_hidden = TRUE,
                   !.applied = SubSeq(@, 1, Len(@) - 1)]
    ELSE u

\* _start_game_async up to its first await (the opening-scene request).
start_game_async_begin(u) ==
    [u EXCEPT !.stats = [mind |-> u.alloc_mind, body |-> u.alloc_body,
                         spirit |-> u.alloc_spirit],
              !.game_started = TRUE,
              !.creation_phase = "game",
              !.worker = [kind |-> "start", pc |-> "opening"]]

\* _start_game_async after the opening scene has arrived.
start_game_async_finish(u, text) ==
    [u EXCEPT !.context = text, !.game_starting = FALSE, !.worker = NoWorker]

\* _handle_action_async up to its first await (the dice animation), or to
\* its return when the action is rejected.
handle_action_async_begin(u, resp, roll) ==
    LET line == u.worker.line
        god_mode == Len(line) = 2 /\ line[1] = "/god"
        typed == line[Len(line)]
        force_mode == typed = "!" /\ Truthy(u.last_action) /\ u.last_invalid
        action == IF force_mode THEN u.last_action[1] ELSE typed
        interp == IF force_mode THEN ForceInterpretation
                  ELSE IF god_mode THEN GodInterpretation
                  ELSE interpret_action(resp)
    IN  IF ~interp.valid
        THEN [u EXCEPT !.last_action = Some(action), !.last_invalid = TRUE,
                       !.force_hidden = FALSE, !.input_disabled = FALSE,
                       !.worker = NoWorker]
        ELSE LET stat_value == u.stats[interp.stat]
                 dice == resolve_dice(god_mode, stat_value, interp.difficulty, roll)
             IN  [u EXCEPT !.input_disabled = TRUE,
                           !.last_invalid = FALSE,
                           !.force_hidden = TRUE,
                           !.history = Append(@, <<u.context, u.last_roll_text>>),
                           !.applied = Append(@, FALSE),
                           !.worker = [kind |-> "action", pc |-> "rolling",
                                       line |-> line, frame |-> Len(u.history) + 1,
                                       stat |-> interp.stat,
                                       stat_value |-> stat_value,
                                       difficulty |-> interp.difficulty,
                                       lethal |-> interp.lethal,
                                       success |-> dice[1],
                                       miracle |-> (force_mode \/ god_mode) /\ dice[1]]]

\* _handle_action_async after the animation: the roll display, narrate,
\* the death.
handle_action_async_finish(u, text) ==
    LET w == u.worker
        died == died_of(w.lethal, w.success)
    IN  [u EXCEPT !.last_roll_text =
                      Some([stat |-> w.stat, stat_value |-> w.stat_value,
                            difficulty |-> w.difficulty, lethal |-> w.lethal,
                            result |-> IF died THEN "DEATH"
                                       ELSE IF w.success THEN "SUCCESS" ELSE "FAILURE",
                            miracle |-> w.miracle]),
                  !.context = text,
                  !.alive = IF died THEN FALSE ELSE @,
                  !.input_disabled = FALSE,
                  !.worker = NoWorker,
                  !.applied = IF w.frame <= Len(@)
                              THEN [@ EXCEPT ![w.frame] = TRUE] ELSE @]

\* The app after one handler or worker step.
InstallApp(u) ==
    /\ tui.worker # ErrorWorker
    /\ tui' = u
    /\ UNCHANGED <<gameVars, call, probe, state_file, tts>>

KeyEnterTitle ==
    /\ tui.creation_phase = "title"
    /\ InstallApp(key_enter_title(tui))

SubmitName ==
    /\ tui.creation_phase = "name"
    /\ \E name \in Characters : InstallApp(submit_name(tui, name))

\* The stat screen is shown from the name's submission until
\* _start_game_async hides it.
PressStatButton ==
    /\ tui.creation_phase = "stats"
    /\ tui.presses < MaxStatPresses
    /\ \E b \in {"mind-minus", "mind-plus", "body-minus", "body-plus",
                  "spirit-minus", "spirit-plus"} :
          InstallApp([press_stat_button(tui, b) EXCEPT !.presses = @ + 1])

PressConfirm ==
    /\ tui.creation_phase = "stats"
    /\ InstallApp(press_confirm(tui))

\* The main container is shown once _start_game_async has begun; the
\* action input holds the focus only while it is enabled.
KeyEnterGame ==
    /\ tui.creation_phase = "game"
    /\ ~tui.input_disabled
    /\ \E line \in TypedLines : InstallApp(key_enter_game(tui, line))

PressSuggestion ==
    /\ tui.creation_phase = "game"
    /\ InstallApp(press_suggestion(tui))

PressForce ==
    /\ tui.creation_phase = "game"
    /\ ~tui.force_hidden
    /\ InstallApp(press_force(tui))

PressUndo ==
    /\ tui.creation_phase = "game"
    /\ InstallApp(action_undo(tui))

StartGameBegin ==
    /\ tui.worker = [kind |-> "start", pc |-> "scheduled"]
    /\ InstallApp(start_game_async_begin(tui))

StartGameFinish ==
    /\ tui.worker = [kind |-> "start", pc |-> "opening"]
    /\ \E text \in OpeningTexts :
          InstallApp(start_game_async_finish(tui, text))

HandleActionBegin ==
    /\ tui.worker.kind = "action" /\ tui.worker.pc = "scheduled"
    /\ \E resp \in UiInterpResponses, roll \in DiceRolls :
        \E u \in {handle_action_async_begin(tui, resp, roll)} :
            /\ Len(u.history) <= MaxHistory
            /\ InstallApp(u)

HandleActionFinish ==
    /\ tui.worker.kind = "action" /\ tui.worker.pc = "rolling"
    /\ \E text \in NarrativeTexts :
          InstallApp(handle_action_async_finish(tui, text))

NextTUI ==
    \/ KeyEnterTitle \/ SubmitName \/ PressStatButton \/ PressConfirm
    \/ KeyEnterGame \/ PressSuggestion \/ PressForce \/ PressUndo
    \/ StartGameBegin \/ StartGameFinish \/ HandleActionBegin \/ HandleActionFinish

SpecTUI == Init /\ [][NextTUI]_vars

(***************************************************************************)
(* The RPGApp with collaborators that can raise, the allocation left at    *)
(* its default 3/3/3, and the workers scheduled fairly.                    *)
(***************************************************************************)
\* The scheduled action goes to interpret_action: it is neither a replay
\* by "!" nor a "/god " line.
consults_interpreter(u) ==
    LET line == u.worker.line
        typed == line[Len(line)]
    IN  /\ ~(Len(line) = 2 /\ line[1] = "/god")
        /\ ~(typed = "!" /\ Truthy(u.last_action) /\ u.last_invalid)

\* _handle_action_async when interpret_action raises: the input was
\* disabled, nothing else was written.
handle_action_async_interpreter_raises(u) ==
    [u EXCEPT !.input_disabled = TRUE, !.worker = ErrorWorker]

\* _handle_action_async when narrate raises: the roll display was written,
\* the context, alive and the input were not.
handle_action_async_narrator_raises(u) ==
    [u EXCEPT !.last_roll_text = handle_action_async_finish(u, u.context).last_roll_text,
              !.worker = ErrorWorker]

HandleActionInterpreterRaises ==
    /\ tui.worker.kind = "action" /\ tui.worker.pc = "scheduled"
    /\ consults_interpreter(tui)
    /\ InstallApp(handle_action_async_interpreter_raises(tui))

HandleActionNarratorRaises ==
    /\ tui.worker.kind = "action" /\ tui.worker.pc = "rolling"
    /\ InstallApp(handle_action_async_narrator_raises(tui))

NextTUILive ==
    \/ KeyEnterTitle \/ SubmitName \/ PressConfirm
    \/ KeyEnterGame \/ PressSuggestion \/ PressForce \/ PressUndo
    \/ StartGameBegin \/ StartGameFinish \/ HandleActionBegin \/ HandleActionFinish
    \/ HandleActionInterpreterRaises \/ HandleActionNarratorRaises

\* A scheduled worker is run by the event loop; a turn in its dice
\* animation comes to its end unless the player cancels every turn forever.
SpecTUILive ==
    /\ Init /\ [][NextTUILive]_vars
    /\ WF_vars(StartGameBegin) /\ WF_vars(StartGameFinish)
    /\ WF_vars(HandleActionBegin \/ HandleActionInterpreterRaises)
    /\ SF_vars(HandleActionFinish \/ HandleActionNarratorRaises)

(***************************************************************************)
(* tts.py: TTS.speak(text, blocking=False, interrupt=True) with TTS        *)
(* enabled and the OpenAI engine available, as the TUI calls it. The       *)
(* caller and the playback threads interleave at the points where a thread *)
(* waits for the network: for the response of the speech request and for   *)
(* each chunk of it.                                                       *)
(***************************************************************************)
\* OpenAITTS.stop: close the stream registered with the engine, if any.
engine_stop(t) ==
    IF t.stream = 0 THEN t
    ELSE [t EXCEPT !.thread[t.stream].stream = "closed", !.stream = 0]

\* TTS.stop up to its join: set the shared flag, stop the engine.
stop(t) == engine_stop([t EXCEPT !.stop_flag = TRUE])

\* speak after stop() has returned: clear the shared flag, create and start
\* the playback thread.
speak_start(t) ==
    LET new == t.playback_thread + 1
    IN  [t EXCEPT !.stop_flag = FALSE,
                  !.thread[new] = [pc |-> "requesting", stream |-> "none"],
                  !.playback_thread = new,
                  !.speak_pc = "idle",
                  !.wrote = 0]

\* The finally block of stream_and_play: close the stream this thread
\* opened, clear the engine's registration whoever made it.
playback_finally(t, i) ==
    [t EXCEPT !.thread[i] = [pc |-> "done",
                             stream |-> IF @.stream = "open" THEN "closed" ELSE @.stream],
              !.stream = 0]

\* stream_and_play when the response of the speech request arrives: return
\* if the flag is set, otherwise open an output stream and register it.
playback_response(t, i) ==
    IF t.stop_flag THEN playback_finally(t, i)
    ELSE [t EXCEPT !.thread[i] = [pc |-> "playing", stream |-> "open"],
                   !.stream = i]

\* stream_and_play when a chunk arrives: leave the loop if the flag is set
\* or the write fails on a closed stream, otherwise the chunk is played.
playback_chunk(t, i) ==
    IF t.stop_flag \/ t.thread[i].stream # "open" THEN playback_finally(t, i)
    ELSE [t EXCEPT !.wrote = i]

InstallTTS(t) ==
    /\ tts' = t
    /\ UNCHANGED <<gameVars, call, probe, state_file, tui>>

\* speak() is entered: stop() sets the flag and stops the engine, then
\* joins the playback thread if it is alive.
SpeakStop ==
    /\ tts.speak_pc = "idle"
    /\ tts.playback_thread < MaxSpeeches
    /\ InstallTTS([stop(tts) EXCEPT !.speak_pc = "joining"])

\* The join returns: the thread has ended, or it is still waiting for the
\* network when the timeout of 0.5 s runs out. speak() goes on.
SpeakStart ==
    /\ tts.speak_pc = "joining"
    /\ InstallTTS(speak_start(tts))

PlaybackResponse ==
    \E i \in Threads :
        /\ tts.thread[i].pc = "requesting"
        /\ InstallTTS(playback_response(tts, i))

PlaybackChunk ==
    \E i \in Threads :
        /\ tts.thread[i].pc = "playing"
        /\ InstallTTS(playback_chunk(tts, i))

\* The response is exhausted: the loop ends.
PlaybackEnd ==
    \E i \in Threads :
        /\ tts.thread[i].pc = "playing"
        /\ InstallTTS(playback_finally(tts, i))

NextTTS == SpeakStop \/ SpeakStart \/ PlaybackResponse \/ PlaybackChunk \/ PlaybackEnd

SpecTTS == Init /\ [][NextTTS]_vars

(***************************************************************************)
(* C11..C20                                                                *)
(***************************************************************************)

\* C11: roll_check returns the face drawn, a face of 1..10, and success
\* exactly when roll + stat_value - difficulty > 5, for every stat_value and
\* difficulty in 1..5: a total of 5 fails, a total of 6 passes.
C11_RollCheckThreshold ==
    probe.fn = "roll_check" =>
        LET total == probe.args[3] + probe.args[1] - probe.args[2]
        IN  /\ probe.out[2] = probe.args[3]
            /\ probe.out[2] \in 1..10
            /\ probe.out[1] = (total > 5)
            /\ total = 5 => ~probe.out[1]
            /\ total = 6 => probe.out[1]

\* roll_check was applied to a total of exactly 5 and answered failure.
C11_Witness ==
    /\ probe.fn = "roll_check"
    /\ probe.args[3] + probe.args[1] - probe.args[2] = 5
    /\ ~probe.out[1]

\* C12: start returns an error exactly for the triples with a stat outside
\* 1..5 or a total other than 9, and returns "started" for every legal
\* triple (the opening-scene request returning its text).
C12_StartValidatesStats ==
    probe.fn = "start" =>
        LET m == probe.args[1]
            b == probe.args[2]
            s == probe.args[3]
            legal == m \in 1..5 /\ b \in 1..5 /\ s \in 1..5 /\ m + b + s = 9
        IN  /\ (probe.out \in {"error_stat_range", "error_stat_total"}) <=> ~legal
            /\ (legal /\ probe.args[4] # None) => probe.out = "started"
            /\ probe.out = "started" => legal

\* start(1, 4, 4) was accepted.
C12_Witness ==
    probe.fn = "start" /\ probe.args = <<1, 4, 4, Some("o1")>> /\ probe.out = "started"

StatErrors == {"error_stat_range", "error_stat_total"}

\* C13: a start() rejected for invalid stats changes no field: an object
\* that take_action answers "not started" to stays so, and a game in
\* progress keeps character, stats, context, history, last outcome and alive.
C13_RejectedStartChangesNothing ==
    [][(ByStart /\ call'.status \in StatErrors) =>
            /\ UNCHANGED gameVars
            /\ ~Truthy(character) => ~Truthy(character')]_vars

\* A start() was rejected on a dead game with turns on its undo stack.
C13_Witness ==
    /\ call.op = "start" /\ call.status \in StatErrors
    /\ ~alive /\ history # <<>> /\ Truthy(character)

\* C14: a start command rejected for invalid stats leaves the persisted
\* game unchanged: a game saved by earlier commands is still in the file.
C14_RejectedCliStartKeepsSavedGame ==
    [][(/\ call'.op = "cmd_start" /\ call'.status \in StatErrors
        /\ state_file # None /\ Truthy(state_file[1].character)) =>
            state_file' = state_file]_vars

C16_StartClearsInvalidMemory ==
    [][(ByStart /\ call'.status = "started" /\ Opened /\ Truthy(last_action)) =>
            /\ ~last_invalid'
            /\ ~(last_invalid' /\ last_action' # None)]_vars

\* C17: take_action on an object on which no start() has succeeded (its
\* context is still the empty text of __init__) answers "not started" in
\* every mode, changes no field and calls no collaborator.
C17_NeverStartedRejectsActions ==
    [][(ByTakeAction /\ context = "" /\ history = <<>> /\ NoRaise) =>
            /\ call'.status = "error_not_started"
            /\ call'.consulted = {}
            /\ UNCHANGED gameVars]_vars

\* C18: undo() on an empty history answers "nothing to undo" and leaves
\* context, last outcome, alive, last_action and last_invalid as they were.
C18_UndoOnEmptyHistoryChangesNothing ==
    [][(ByUndo /\ history = <<>>) =>
            /\ call'.status = "error_nothing_to_undo"
            /\ UNCHANGED <<context, last_roll, alive, last_action, last_invalid>>
            /\ UNCHANGED gameVars]_vars

\* undo() was refused while a rejected action was pending.
C18_Witness ==
    /\ call.op = "undo" /\ call.status = "error_nothing_to_undo"
    /\ last_invalid /\ Truthy(character)

\* C19: for every turn take_action returns a roll for, died = lethal and not
\* success; the status is "death" exactly when died, else "success" on a
\* passed check and "failure" on a failed one; alive is false afterwards
\* exactly when died.
C19_DeathIsLethalFailure ==
    [][(ByTakeAction /\ call'.status \in ResolvedStatuses) =>
            LET r == last_roll'[1]
            IN  /\ r.died = (r.lethal /\ ~r.success)
                /\ (call'.status = "death") = r.died
                /\ ~r.died => call'.status = (IF r.success THEN "success" ELSE "failure")
                /\ alive' = ~r.died]_vars

\* A failed check that was not lethal left the game alive.
C19_Witness ==
    /\ call.op = "take_action" /\ call.status = "failure"
    /\ last_roll # None /\ ~last_roll[1].lethal /\ ~last_roll[1].success
    /\ alive

\* C20: a take_action in normal mode on a started game never aborts because
\* of the interpreter: whatever the completion request does, the call returns.
C20_InterpreterNeverAborts ==
    ~(/\ call.op = "take_action" /\ ~call.force /\ ~call.god_mode
      /\ call.status = "raised_interpreter"
      /\ Opened)

(***************************************************************************)
(* C21..C30                                                                *)
(***************************************************************************)

\* C21: every interpretation returned as valid has a stat of mind, body,
\* spirit (body when the answer's stat is absent or unrecognised), a
\* difficulty in 1..5 (a number out of range clamped to the nearest end, 3
\* when absent) and lethal false when absent; and every roll a turn records
\* has a difficulty in 1..5 and a stat the character has.
C21_InterpretationIsNormalised ==
    /\ probe.fn = "interpret_action" =>
        LET resp == probe.args[1]
            o == probe.out
        IN  o.valid =>
              /\ o.stat \in {"mind", "body", "spirit"}
              /\ o.difficulty \in 1..5
              /\ o.lethal \in BOOLEAN
              /\ (resp.kind = "json" /\ resp.difficulty = None) =>
                    o.difficulty = 3
              /\ (resp.kind = "json" /\ resp.difficulty # None
                    /\ resp.difficulty[1].num # None) =>
                    LET n == resp.difficulty[1].num[1]
                    IN  /\ o.difficulty = (IF n < 1 THEN 1 ELSE IF n > 5 THEN 5 ELSE n)
                        /\ o.stat = (IF resp.stat \in {Some("mind"), Some("body"), Some("spirit")}
                                     THEN resp.stat[1] ELSE "body")
                        /\ resp.lethal = None => ~o.lethal
                        /\ resp.lethal # None => o.lethal = resp.lethal[1]
    /\ (probe.fn = "take_action" /\ probe.out.game.last_roll # None) =>
        LET r == probe.out.game.last_roll[1]
            st == probe.out.game.stats[1]
        IN  /\ r.difficulty \in 1..5
            /\ r.stat \in DOMAIN st
            /\ r.stat_value = st[r.stat]

\* An answer with an unknown stat, a difficulty above the range and no
\* lethal key came back as body / 5 / not lethal.
C21_Witness ==
    /\ probe.fn = "interpret_action"
    /\ probe.args[1] = JsonResp(None, Some("luck"), Some(JNum(7)), None)
    /\ probe.out = [valid |-> TRUE, stat |-> "body", difficulty |-> 5, lethal |-> FALSE]

\* C22: narrate gives every combination of (success, died, forced) one
\* label: DEATH whenever died, otherwise MIRACULOUS when forced and success,
\* otherwise SUCCESS or FAILURE by success; a forced failure is FAILURE.
C22_NarrateLabels ==
    probe.fn = "narrate" =>
        LET success == probe.args[1]
            died == probe.args[2]
            forced == probe.args[3]
        IN  /\ probe.out \in {"DEATH", "MIRACULOUS", "SUCCESS", "FAILURE"}
            /\ (probe.out = "DEATH") = died
            /\ (probe.out = "MIRACULOUS") = (~died /\ forced /\ success)
            /\ (probe.out = "SUCCESS") = (~died /\ ~forced /\ success)
            /\ (probe.out = "FAILURE") = (~died /\ ~success)

\* A forced success that killed was labelled DEATH, not MIRACULOUS.
C22_Witness ==
    probe.fn = "narrate" /\ probe.args = <<TRUE, TRUE, TRUE>> /\ probe.out = "DEATH"

\* C23: a turn whose stat and difficulty came from the interpreter is never
\* recorded as forced or miraculous, and the narrator is not told it was
\* forced.
C23_InterpretedTurnNeverForced ==
    [][(/\ ByTakeAction /\ Opened
        /\ call'.status \in ResolvedStatuses
        /\ "interpreter" \in call'.consulted) =>
            /\ ~last_roll'[1].forced
            /\ ~last_roll'[1].miraculous
            /\ ~is_miraculous(call'.force, call'.god_mode)]_vars

\* C24: every turn that resolves clears last_invalid, so can_force is false
\* afterwards; last_invalid is raised again only by a rejected action; and
\* after the replay of a rejected action the force branch is closed, so one
\* rejected action is replayed at most once.
C24_ResolvedTurnClearsInvalid ==
    [][ /\ (ByTakeAction /\ call'.status \in ResolvedStatuses) =>
                (~last_invalid' /\ ~(last_invalid' /\ last_action' # None))
        /\ (last_invalid' /\ ~last_invalid) =>
                (ByTakeAction /\ call'.status = "invalid")
        /\ (ByTakeAction /\ force_path(Game, call'.force)
              /\ call'.status \in ResolvedStatuses) =>
                ~(Truthy(last_action') /\ last_invalid') ]_vars

\* A rejected action was replayed by force and the flag is down.
C24_Witness ==
    /\ call.op = "take_action" /\ call.force /\ call.status \in ResolvedStatuses
    /\ last_roll # None /\ last_roll[1].forced /\ last_roll[1].action = "fly"
    /\ last_action = Some("fly") /\ ~last_invalid

\* C25: get_state changes no field and reports the fields as they are, with
\* can_undo true exactly when history is non-empty and can_force true
\* exactly when last_invalid is true and last_action is not None.
C25_GetStateIsPureAndDerived ==
    [][call'.op = "get_state" =>
            /\ UNCHANGED gameVars
            /\ call'.out.can_undo = (history # <<>>)
            /\ call'.out.can_force = (last_invalid /\ last_action # None)
            /\ call'.out.character = character
            /\ call'.out.stats = stats
            /\ call'.out.alive = alive
            /\ call'.out.narrative = context
            /\ call'.out.last_roll = last_roll]_vars

\* get_state reported can_force for a remembered empty text, with a turn
\* to undo.
C25_Witness ==
    /\ call.op = "get_state"
    /\ call.out.can_force /\ call.out.can_undo
    /\ last_action = Some("") /\ history # <<>>

\* C26: a command that returns on both sides, given to a CLI whose saved
\* game equals the object kept in memory, answers the same on both sides and
\* leaves the saved game equal to the object again.
C26_CliMatchesMemory ==
    [][(/\ load_game(state_file) = Game
        /\ call'.status \notin Raised /\ call'.mem_status \notin Raised) =>
            /\ load_game(state_file') = Game'
            /\ \/ call'.status = call'.mem_status
               \/ call'.status = "error_no_game" /\ call'.mem_status = "error_not_started"]_vars

\* C27: generate_suggestions returns exactly three suggestions for every
\* answer of the collaborator, a raising request included: no exception
\* leaves it, and an answer no rule accepts gives the fallback list.
C27_SuggestionsAlwaysThree ==
    probe.fn = "generate_suggestions" =>
        /\ ~probe.out.raised
        /\ probe.out.count = 3

\* C28: while the character of the TUI is dead (no undo has revived it), no
\* step changes context, history or the roll display.
C28_DeadTuiResolvesNothing ==
    [][(~tui.alive /\ ~tui'.alive) =>
            /\ tui'.context = tui.context
            /\ tui'.history = tui.history
            /\ tui'.last_roll_text = tui.last_roll_text]_vars

\* C29: whenever no action is being resolved in the TUI, every frame of the
\* history was pushed by a turn that completed: no turn is left
\* half-applied, and the history is as long as the turns completed and not
\* undone.
C29_NoHalfAppliedTurn ==
    tui.worker = NoWorker =>
        \A i \in 1..Len(tui.history) : tui.applied[i]

\* C30: a game started in the TUI has stats that are each in 1..5 and sum
\* to exactly 9.
C30_TuiStartsWithLegalStats ==
    tui.game_started =>
        /\ tui.stats.mind \in 1..5 /\ tui.stats.body \in 1..5 /\ tui.stats.spirit \in 1..5
        /\ tui.stats.mind + tui.stats.body + tui.stats.spirit = 9

(***************************************************************************)
(* C31..C39                                                                *)
(***************************************************************************)

\* C33: whenever alive is false the history is non-empty, so a dead game
\* always has a frame to undo.
C33_DeadGameCanUndo == ~alive => history # <<>>

\* The character has just died and undo is offered.
C33_Witness ==
    /\ ~alive /\ call.op = "take_action" /\ call.status = "death"
    /\ can_undo(Game)

\* An outcome as take_action computes it: the total is roll + stat_value -
\* difficulty, stat_value is the character's value of the outcome's stat,
\* and the check succeeded exactly when the total is above 5.
OutcomeIsConsistent(r) ==
    /\ r.total = r.roll + r.stat_value - r.difficulty
    /\ r.stat_value = stats[1][r.stat]
    /\ r.success <=> r.total > 5

\* The outcomes the game holds: the last one and those in the undo frames.
StoredOutcomes ==
    {o \in {last_roll} \cup {history[i][2] : i \in 1..Len(history)} : o # None}

\* C34: in every reachable state of a started game the last outcome and every outcome stored
\* in history has total = roll + stat_value - difficulty, the stat_value of
\* the character's stat it names, and success exactly when total > 5, the
\* god-mode turns with their roll of 10 included.
C34_OutcomesAreConsistent ==
    Opened => \A o \in StoredOutcomes : OutcomeIsConsistent(o[1])

\* C35: a turn that resolves on a call made with force=true or
\* god_mode=true never kills the character: its outcome has lethal false
\* and died false, and alive is still true after the call, whatever the die
\* shows.
C35_ForcedOrGodTurnNeverKills ==
    [][(/\ ByTakeAction /\ Opened
        /\ (call'.force \/ call'.god_mode)
        /\ call'.status \in ResolvedStatuses) =>
            /\ ~last_roll'[1].lethal
            /\ ~last_roll'[1].died
            /\ alive']_vars

\* C36: undo() called right after a take_action that resolved (success,
\* failure or death) answers "undone" and gives context, last outcome,
\* history and alive the values they had before the action.
C36_UndoRevertsResolvedTurn ==
    [][(ByTakeAction /\ call'.status \in ResolvedStatuses) =>
            LET undone == undo(Game')
            IN  /\ undone[2].status = "undone"
                /\ undone[1].context = context
                /\ undone[1].last_roll = last_roll
                /\ undone[1].history = history
                /\ undone[1].alive = alive]_vars

\* An undo has just reverted a second turn: an earlier outcome is the last
\* one again and its frame is still on the stack.
C36_Witness ==
    /\ call.op = "undo" /\ call.status = "undone"
    /\ alive /\ last_roll # None /\ Len(history) = 1 /\ context = "n1"

\* C37: in every state of a started game, get_state() reports can_force
\* exactly when a take_action call with force=true would take the force
\* branch, whatever action text is remembered, the empty one included.
C37_CanForceIsTheForcePath ==
    Opened => (get_state(Game).can_force <=> force_path(Game, TRUE))

\* C38: a start() whose opening-scene request raises has changed no field
\* of the game: no character and no stats are installed, and a game in
\* progress is untouched.
C38_RaisedStartChangesNothing ==
    [][(ByStart /\ call'.status = "raised_opening") => UNCHANGED gameVars]_vars

\* C39: in every state of a game that has a narrative, alive is false
\* exactly when there is a last outcome and it has died = true, and no
\* outcome stored in history has died = true.
C39_DeadIffLastOutcomeDied ==
    context # "" =>
        /\ ~alive <=> (last_roll # None /\ last_roll[1].died)
        /\ \A i \in 1..Len(history) :
              history[i][2] # None => ~history[i][2][1].died

\* C32: in the TUI a disabled action input is eventually enabled again,
\* whether the submitted action is rejected, resolves, kills the character
\* or fails inside the interpreter or the narrator call.
C32_InputEventuallyEnabled ==
    tui.input_disabled ~> ~tui.input_disabled

\* C31: once speak(text, interrupt=True) has returned, only the playback
\* thread it started produces audio: an earlier playback does not go on
\* alongside or after the new one.
C31_OnlyLatestSpeechPlays ==
    tts.wrote \in {0, tts.playback_thread}

====
